---- MODULE Spec2Model ----
(***************************************************************************)
(* add_overlap (ddm_playground/mesh/overlap.py): construction of           *)
(* overlapping subdomains from a disjointly partitioned simplicial mesh.   *)
(*                                                                         *)
(* Conventions.  Node indices and local indices are the program's 0-based  *)
(* integers.  A numpy array indexed by node is a function on 0..n-1.  An   *)
(* element (a row of mesh.elements) is a TLA+ sequence of node indices, and *)
(* arrays of rows (mesh.elements, partitions_elements[p], a physical       *)
(* group) are TLA+ sequences of rows, so row j of the program is row j+1   *)
(* here.  A dict is a function whose DOMAIN is the key set.  A float       *)
(* weight is the fraction <<numerator, denominator>>.                      *)
(*                                                                         *)
(* Inputs.  The meshes are strips of simplices (row j has nodes j..j+dim), *)
(* split in every way into at most MaxPartitions blocks of rows, the       *)
(* blocks carrying contiguous, reversed, shifted or doubled ids, or left   *)
(* unpartitioned.  add_overlap is followed phase by phase: one action per  *)
(* block of its body, the partitions visited in dict order.                *)
(*                                                                         *)
(* Spec follows the call as written.  SpecLong runs the same steps on a    *)
(* strip of LongRows triangles cut in two, where a part may be made of     *)
(* runs of rows far from one another.  SpecTasks runs the loop body as one *)
(* task per partition id, entered in any order and interleaved between the *)
(* blocks of the body.                                                     *)
(***************************************************************************)
EXTENDS Integers, Sequences, FiniteSets

\* ---------------------------------------------------------------- bounds
MaxElements == 4
MaxPartitions == 3
MaxOverlap == 2
MaxDim == 2
LongRows == 9
TaskRows == 3
TaskPartitions == 3
TaskOverlap == 1

\* ------------------------------------------------------- program constants
Unmapped == 0 - 1

\* ------------------------------------------------------------ input meshes
Overlaps == (0 - 1) .. MaxOverlap
Dims == 0 .. MaxDim

\* Row j (1-based) of a strip of simplices: nodes j-1 .. j-1+d.
StripElement(j, d) == [k \in 1 .. d + 1 |-> j - 1 + k - 1]

StripElements(m, d) == [j \in 1 .. m |-> StripElement(j, d)]

\* Faces of the strip carried as the physical group "gamma".
StripFaces(m, d) == [j \in 1 .. m + 1 |-> [k \in 1 .. d |-> j - 1 + k - 1]]

\* The groups of a strip: "omega" holds every row, "tip" the last row only
\* and, above dimension 0, "gamma" the faces.
StripGroups(m, d) ==
    IF m = 0 THEN << >>
    ELSE [g \in {<<"omega", d>>, <<"tip", d>>}
                  \cup (IF d = 0 THEN {} ELSE {<<"gamma", d - 1>>}) |->
             CASE g[1] = "omega" -> StripElements(m, d)
               [] g[1] = "tip" -> <<StripElement(m, d)>>
               [] g[1] = "gamma" -> StripFaces(m, d)]

RECURSIVE RowsOf(_, _, _, _)
\* Rows 1..j of elts whose partition tag is id, in row order.
RowsOf(elts, assign, id, j) ==
    IF j = 0 THEN << >>
    ELSE IF assign[j] = id
         THEN Append(RowsOf(elts, assign, id, j - 1), elts[j])
         ELSE RowsOf(elts, assign, id, j - 1)

PartitionsOf(elts, assign) ==
    [id \in {assign[j] : j \in DOMAIN assign} |->
        RowsOf(elts, assign, id, Len(elts))]

MeshData(d, n, elts, groups, parts) ==
    [dim |-> d, nodes |-> [i \in 0 .. n - 1 |-> i], elements |-> elts,
     physical_group_elements |-> groups, partitions_elements |-> parts]

\* A strip mesh of m simplices of dimension d, partitioned by assign, or
\* left unpartitioned (partitions_elements = {}) when partitioned is FALSE.
StripMesh(m, d, assign, partitioned) ==
    MeshData(d, IF m = 0 THEN 0 ELSE m + d, StripElements(m, d),
             StripGroups(m, d),
             IF partitioned THEN PartitionsOf(StripElements(m, d), assign)
             ELSE << >>)

\* The ways of splitting rows 1..m into at most MaxPartitions non-empty
\* blocks, each block numbered by the order of its first row.
Splittings(m) ==
    {a \in [1 .. m -> 0 .. MaxPartitions - 1] :
        /\ a[1] = 0
        /\ \A j \in 2 .. m : \E i \in 1 .. j - 1 : a[j] <= a[i] + 1}

\* The partition ids given to blocks 0..P-1: 0..P-1 in order or reversed
\* (tag % partition wraps around), 1..P, or the even ids 0, 2, ...
Labellings == {"identity", "reversed", "shifted", "doubled"}

Relabel(kind, id, P) ==
    CASE kind = "identity" -> id
      [] kind = "reversed" -> P - 1 - id
      [] kind = "shifted" -> id + 1
      [] kind = "doubled" -> 2 * id

Labelled(a, kind) ==
    [j \in DOMAIN a |->
        Relabel(kind, a[j], Cardinality({a[i] : i \in DOMAIN a}))]

RECURSIVE Ascending(_)
\* The elements of a finite set of integers in increasing order.
Ascending(S) ==
    IF S = {} THEN << >>
    ELSE LET top == CHOOSE x \in S : \A y \in S : y <= x
         IN Append(Ascending(S \ {top}), top)

\* The orders in which the keys were inserted in partitions_elements, which
\* is the order dict iteration follows: by increasing id, or the loader's
\* order for entity tags 1..P and ids tag % P, where id 0 comes last.
InsertionOrders(keys) ==
    LET up == Ascending(keys)
    IN {up} \cup (IF up # << >> /\ Head(up) = 0
                  THEN {Append(Tail(up), 0)} ELSE {})

InputMeshes ==
    UNION { UNION { { StripMesh(m, d, Labelled(a, kind), TRUE) :
                        a \in Splittings(m), kind \in Labellings }
                    \cup { StripMesh(m, d, << >>, FALSE) }
                  : m \in 1 .. MaxElements }
            \cup { StripMesh(0, d, << >>, FALSE) }
          : d \in Dims }

TaskMeshes ==
    { StripMesh(TaskRows, d, a, TRUE) :
        d \in {1, 2},
        a \in {s \in Splittings(TaskRows) :
                  \A j \in DOMAIN s : s[j] <= TaskPartitions - 1} }

LongMeshes ==
    { StripMesh(LongRows, 2, a, TRUE) :
        a \in {s \in Splittings(LongRows) : \A j \in DOMAIN s : s[j] <= 1} }

\* ------------------------------------------------------------------ state
VARIABLES mesh, order, overlap, pc, error, todo, partition_id, rnd,
          initial_nodes_partition, nodes_partition, elements_partition,
          node_partition_find_neighbors, neighbors,
          global_to_ovr_subdomain, partition_to_ovr_subdomain,
          ovr_subdomain_to_global, meshes, intersections,
          node_multiplicity, partition_of_unity, tasks

vars == <<mesh, order, overlap, pc, error, todo, partition_id, rnd,
          initial_nodes_partition, nodes_partition, elements_partition,
          node_partition_find_neighbors, neighbors,
          global_to_ovr_subdomain, partition_to_ovr_subdomain,
          ovr_subdomain_to_global, meshes, intersections,
          node_multiplicity, partition_of_unity, tasks>>

nb_nodes == Cardinality(DOMAIN mesh.nodes)
global_elements == mesh.elements
nb_elements == Len(global_elements)
nb_partitions == Cardinality(DOMAIN mesh.partitions_elements)
Nodes == 0 .. nb_nodes - 1
Rows == 1 .. nb_elements

NoPartition == 0 - 1

\* The state at the call, before the first statement of the body.
Unstarted ==
    /\ pc = "start"
    /\ error = "none"
    /\ todo = << >>
    /\ partition_id = NoPartition
    /\ rnd = 0
    /\ initial_nodes_partition = << >>
    /\ nodes_partition = << >>
    /\ elements_partition = << >>
    /\ node_partition_find_neighbors = << >>
    /\ neighbors = << >>
    /\ global_to_ovr_subdomain = << >>
    /\ partition_to_ovr_subdomain = << >>
    /\ ovr_subdomain_to_global = << >>
    /\ meshes = << >>
    /\ intersections = << >>
    /\ node_multiplicity = << >>
    /\ partition_of_unity = << >>
    /\ tasks = << >>

Init ==
    /\ mesh \in InputMeshes
    /\ order \in InsertionOrders(DOMAIN mesh.partitions_elements)
    /\ overlap \in Overlaps
    /\ Unstarted

\* Short strips of segments and of triangles with contiguous ids, for the
\* runs in which the loop body is a task.
InitTasks ==
    /\ mesh \in TaskMeshes
    /\ order = Ascending(DOMAIN mesh.partitions_elements)
    /\ overlap \in 0 .. TaskOverlap
    /\ Unstarted

\* A longer strip of triangles cut in two: either part may be made of
\* several runs of rows that lie far from one another.
InitLong ==
    /\ mesh \in LongMeshes
    /\ order = Ascending(DOMAIN mesh.partitions_elements)
    /\ overlap \in 1 .. MaxOverlap
    /\ Unstarted

\* ---------------------------------------------------------------- helpers
\* d[k] = v on a dict.
Put(d, k, v) == [x \in DOMAIN d \cup {k} |-> IF x = k THEN v ELSE d[x]]

\* Variant that lists every member twice, as a list filled by append
\* from the two scans would be.
ListWithRepeats(S) == Ascending(S) \o Ascending(S)

\* list(set) of ids below the size of the set's hash table: a small int
\* hashes to itself, so the slots are visited in increasing id.
ListOfSet(S) == Ascending(S)

RECURSIVE SelectRows(_, _, _)
\* Rows 1..j of global_elements whose mask bit keep[j] is set, in row order.
SelectRows(elts, keep, j) ==
    IF j = 0 THEN << >>
    ELSE IF keep[j] THEN Append(SelectRows(elts, keep, j - 1), elts[j])
         ELSE SelectRows(elts, keep, j - 1)

\* ------------------------------------------------- lines 100-109: tagging
\* initial_nodes_partition[partition_id]: every node of every row of the
\* partition is tagged.
InitialNodes(partition_elements) ==
    [n \in Nodes |->
        \E i \in DOMAIN partition_elements :
            \E k \in DOMAIN partition_elements[i] :
                partition_elements[i][k] = n]

Start ==
    /\ pc = "start"
    /\ initial_nodes_partition' =
           [id \in DOMAIN mesh.partitions_elements |->
               InitialNodes(mesh.partitions_elements[id])]
    /\ todo' = order
    /\ pc' = "loop"
    /\ UNCHANGED <<mesh, order, overlap, tasks, error, partition_id, rnd,
                   nodes_partition,
                   elements_partition, node_partition_find_neighbors,
                   neighbors, global_to_ovr_subdomain,
                   partition_to_ovr_subdomain, ovr_subdomain_to_global,
                   meshes, intersections, node_multiplicity,
                   partition_of_unity>>

\* ------------------------------------ lines 122-126: next dict entry
BeginPartition ==
    /\ pc = "loop"
    /\ todo # << >>
    /\ partition_id' = Head(todo)
    /\ todo' = Tail(todo)
    /\ nodes_partition' =
           Put(nodes_partition, Head(todo),
               initial_nodes_partition[Head(todo)])
    /\ elements_partition' = [j \in Rows |-> FALSE]
    /\ rnd' = 0
    /\ pc' = "expand"
    /\ UNCHANGED <<mesh, order, overlap, tasks, error, initial_nodes_partition,
                   node_partition_find_neighbors, neighbors,
                   global_to_ovr_subdomain, partition_to_ovr_subdomain,
                   ovr_subdomain_to_global, meshes, intersections,
                   node_multiplicity, partition_of_unity>>

\* ------------------------------------ lines 127-144: one expansion round
\* Variant of the element pass that looks at the first node of a row only
\* (k = 0 instead of the loop over k).
ElementPassFirstNode(elts_mask, nodes_mask) ==
    [j \in Rows |-> elts_mask[j] \/ nodes_mask[global_elements[j][1]]]

\* P1 -> P0: elements[j] = elements[j] or nodes[global_elements[j, k]].
ElementPass(elts_mask, nodes_mask) ==
    [j \in Rows |->
        elts_mask[j]
        \/ \E k \in DOMAIN global_elements[j] :
               nodes_mask[global_elements[j][k]]]

\* Variant of the node pass that keeps only the newly reached layer.
NodePassFrontier(nodes_mask, elts_mask) ==
    [n \in Nodes |->
        ~nodes_mask[n]
        /\ \E j \in Rows :
               /\ elts_mask[j]
               /\ \E k \in DOMAIN global_elements[j] :
                      global_elements[j][k] = n]

\* P0 -> P1: nodes[global_elements[j, k]] = nodes[...] or elements[j].
NodePass(nodes_mask, elts_mask) ==
    [n \in Nodes |->
        nodes_mask[n]
        \/ \E j \in Rows :
               /\ elts_mask[j]
               /\ \E k \in DOMAIN global_elements[j] :
                      global_elements[j][k] = n]

\* Variant in which nodes_partition[partition_id] is the very array of
\* initial_nodes_partition[partition_id] (no deepcopy at line 124), so
\* that the node pass writes the original mask as well.
ExpandRoundAliased ==
    /\ pc = "expand"
    /\ rnd < overlap
    /\ LET elts == ElementPass(elements_partition,
                               nodes_partition[partition_id])
           grown == NodePass(nodes_partition[partition_id], elts)
       IN /\ elements_partition' = elts
          /\ nodes_partition' = Put(nodes_partition, partition_id, grown)
          /\ initial_nodes_partition' =
                 Put(initial_nodes_partition, partition_id, grown)
    /\ rnd' = rnd + 1
    /\ UNCHANGED <<mesh, order, overlap, tasks, pc, error, todo, partition_id,
                   node_partition_find_neighbors,
                   neighbors, global_to_ovr_subdomain,
                   partition_to_ovr_subdomain, ovr_subdomain_to_global,
                   meshes, intersections, node_multiplicity,
                   partition_of_unity>>

ExpandRound ==
    /\ pc = "expand"
    /\ rnd < overlap
    /\ LET elts == ElementPass(elements_partition,
                               nodes_partition[partition_id])
       IN /\ elements_partition' = elts
          /\ nodes_partition' =
                 Put(nodes_partition, partition_id,
                     NodePass(nodes_partition[partition_id], elts))
    /\ rnd' = rnd + 1
    /\ UNCHANGED <<mesh, order, overlap, tasks, pc, error, todo, partition_id,
                   initial_nodes_partition, node_partition_find_neighbors,
                   neighbors, global_to_ovr_subdomain,
                   partition_to_ovr_subdomain, ovr_subdomain_to_global,
                   meshes, intersections, node_multiplicity,
                   partition_of_unity>>

\* ------------------------------- lines 146-175: neighbours, twice as far
RECURSIVE ExpandMoreTooFar(_, _, _)
\* Variant of the second loop that runs one round too many.
ExpandMoreTooFar(nodes_mask, elts_mask, k) ==
    IF k < 0 THEN [nodes |-> nodes_mask, elements |-> elts_mask]
    ELSE LET elts == ElementPass(elts_mask, nodes_mask)
         IN ExpandMoreTooFar(NodePass(nodes_mask, elts), elts, k - 1)

RECURSIVE ExpandMore(_, _, _)
\* for _ in range(k): element pass, node pass, on working copies.
ExpandMore(nodes_mask, elts_mask, k) ==
    IF k <= 0 THEN [nodes |-> nodes_mask, elements |-> elts_mask]
    ELSE LET elts == ElementPass(elts_mask, nodes_mask)
         IN ExpandMore(NodePass(nodes_mask, elts), elts, k - 1)

\* range(nb_partitions) indexes initial_nodes_partition: a missing key
\* raises KeyError as soon as a tagged node is scanned.
NeighborKeyError(far, p) ==
    /\ \E user_dof \in Nodes : far[user_dof]
    /\ \E partition_index \in 0 .. nb_partitions - 1 :
           /\ partition_index # p
           /\ partition_index \notin DOMAIN initial_nodes_partition

\* Variant of the detection without the test partition_index != partition_id.
NeighborsSetWithSelf(far, p) ==
    {partition_index \in 0 .. nb_partitions - 1 :
        \E user_dof \in Nodes :
            /\ far[user_dof]
            /\ initial_nodes_partition[partition_index][user_dof]}

NeighborsSet(far, p) ==
    {partition_index \in 0 .. nb_partitions - 1 :
        /\ partition_index # p
        /\ \E user_dof \in Nodes :
               /\ far[user_dof]
               /\ initial_nodes_partition[partition_index][user_dof]}

\* Variant of the detection that tests the k-layer mask itself, without
\* the second expansion of lines 146-164.
FindNeighborsNear ==
    /\ pc = "expand"
    /\ ~(rnd < overlap)
    /\ LET far == nodes_partition[partition_id]
       IN /\ node_partition_find_neighbors' = far
          /\ IF NeighborKeyError(far, partition_id)
             THEN /\ pc' = "error"
                  /\ error' = "KeyError"
                  /\ UNCHANGED neighbors
             ELSE /\ pc' = "build"
                  /\ UNCHANGED error
                  /\ neighbors' =
                         Put(neighbors, partition_id,
                             ListOfSet(NeighborsSet(far, partition_id)))
    /\ UNCHANGED <<mesh, order, overlap, tasks, todo, partition_id, rnd,
                   initial_nodes_partition, nodes_partition,
                   elements_partition, global_to_ovr_subdomain,
                   partition_to_ovr_subdomain, ovr_subdomain_to_global,
                   meshes, intersections, node_multiplicity,
                   partition_of_unity>>

FindNeighbors ==
    /\ pc = "expand"
    /\ ~(rnd < overlap)
    /\ LET far == ExpandMore(nodes_partition[partition_id],
                             elements_partition, overlap).nodes
       IN /\ node_partition_find_neighbors' = far
          /\ IF NeighborKeyError(far, partition_id)
             THEN /\ pc' = "error"
                  /\ error' = "KeyError"
                  /\ UNCHANGED neighbors
             ELSE /\ pc' = "build"
                  /\ UNCHANGED error
                  /\ neighbors' =
                         Put(neighbors, partition_id,
                             ListOfSet(NeighborsSet(far, partition_id)))
    /\ UNCHANGED <<mesh, order, overlap, tasks, todo, partition_id, rnd,
                   initial_nodes_partition, nodes_partition,
                   elements_partition, global_to_ovr_subdomain,
                   partition_to_ovr_subdomain, ovr_subdomain_to_global,
                   meshes, intersections, node_multiplicity,
                   partition_of_unity>>

\* --------------------------------- lines 177-236: the subdomain's mesh
\* Variant of the numbering that scans the nodes in decreasing index.
GlobalToOvrReversed(nodes_mask) ==
    [user_dof \in Nodes |->
        IF nodes_mask[user_dof]
        THEN Cardinality({m \in Nodes : m > user_dof /\ nodes_mask[m]})
        ELSE Unmapped]

\* count runs over the tagged nodes in increasing global index.
GlobalToOvr(nodes_mask) ==
    [user_dof \in Nodes |->
        IF nodes_mask[user_dof]
        THEN Cardinality({m \in Nodes : m < user_dof /\ nodes_mask[m]})
        ELSE Unmapped]

\* global_to_ovr_subdomain[np.where(initial_nodes_partition)[0]]
RECURSIVE Gather(_, _, _)
Gather(g2o, mask, n) ==
    IF n = 0 THEN << >>
    ELSE IF mask[n - 1] THEN Append(Gather(g2o, mask, n - 1), g2o[n - 1])
         ELSE Gather(g2o, mask, n - 1)

\* Variant that gathers the numbering over the expanded mask of the
\* partition being processed, so that overlap nodes are weighted too.
PartitionToOvrExpanded(g2o, initial_mask) ==
    Gather(g2o, nodes_partition[partition_id], nb_nodes)

PartitionToOvr(g2o, initial_mask) == Gather(g2o, initial_mask, nb_nodes)

\* g2o[row]: fancy indexing of the numbering by a row of node indices.
Renumber(g2o, row) == [k \in DOMAIN row |-> g2o[row[k]]]

\* Variant that keeps every row with a numbered node, whatever its bit in
\* the element mask: the rows reached by one more element pass.
ElementsInSubdomainTouching(g2o, elts_mask) ==
    LET touching == [j \in Rows |->
                        \E k \in DOMAIN global_elements[j] :
                            g2o[global_elements[j][k]] # Unmapped]
        kept == SelectRows(global_elements, touching, nb_elements)
    IN [c \in DOMAIN kept |-> Renumber(g2o, kept[c])]

ElementsInSubdomain(g2o, elts_mask) ==
    LET kept == SelectRows(global_elements, elts_mask, nb_elements)
    IN [c \in DOMAIN kept |-> Renumber(g2o, kept[c])]

\* An array of sum(nodes_mask) entries filled with -1, then written at
\* g2o[user_dof] for increasing user_dof.
OvrToGlobal(g2o, nodes_mask) ==
    [i \in 0 .. Cardinality({n \in Nodes : nodes_mask[n]}) - 1 |->
        IF \E n \in Nodes : g2o[n] = i
        THEN CHOOSE n \in Nodes :
                 /\ g2o[n] = i
                 /\ \A m \in Nodes : g2o[m] = i => m <= n
        ELSE Unmapped]

RECURSIVE RestrictRowsAny(_, _, _)
\* Variant that keeps a row as soon as one of its nodes is numbered.
RestrictRowsAny(g2o, elements, j) ==
    IF j = 0 THEN << >>
    ELSE IF \E k \in DOMAIN elements[j] : g2o[elements[j][k]] # Unmapped
         THEN Append(RestrictRowsAny(g2o, elements, j - 1),
                     Renumber(g2o, elements[j]))
         ELSE RestrictRowsAny(g2o, elements, j - 1)

RECURSIVE RestrictRows(_, _, _)
\* Rows 1..j of a physical group all of whose nodes are numbered.
RestrictRows(g2o, elements, j) ==
    IF j = 0 THEN << >>
    ELSE IF \A k \in DOMAIN elements[j] : g2o[elements[j][k]] # Unmapped
         THEN Append(RestrictRows(g2o, elements, j - 1),
                     Renumber(g2o, elements[j]))
         ELSE RestrictRows(g2o, elements, j - 1)

RestrictGroups(g2o) ==
    LET groups == mesh.physical_group_elements
        new_elements(g) == RestrictRows(g2o, groups[g], Len(groups[g]))
    IN [g \in {h \in DOMAIN groups : Len(new_elements(h)) # 0} |->
           new_elements(g)]

BuildSubdomain ==
    /\ pc = "build"
    /\ LET p == partition_id
           g2o == GlobalToOvr(nodes_partition[p])
           o2g == OvrToGlobal(g2o, nodes_partition[p])
       IN /\ global_to_ovr_subdomain' = Put(global_to_ovr_subdomain, p, g2o)
          /\ partition_to_ovr_subdomain' =
                 Put(partition_to_ovr_subdomain, p,
                     PartitionToOvr(g2o, initial_nodes_partition[p]))
          /\ ovr_subdomain_to_global' = Put(ovr_subdomain_to_global, p, o2g)
          /\ meshes' =
                 Put(meshes, p,
                     [dim |-> mesh.dim,
                      nodes |-> [i \in DOMAIN o2g |-> mesh.nodes[o2g[i]]],
                      elements |->
                          ElementsInSubdomain(g2o, elements_partition),
                      physical_group_elements |-> RestrictGroups(g2o),
                      partitions_elements |-> << >>])
    /\ pc' = "interface"
    /\ UNCHANGED <<mesh, order, overlap, tasks, error, todo, partition_id, rnd,
                   initial_nodes_partition, nodes_partition,
                   elements_partition, node_partition_find_neighbors,
                   neighbors, intersections, node_multiplicity,
                   partition_of_unity>>

\* ------------------------------------------- lines 238-260: interface
\* np.sum(nodes_partition[global_elements[j, :]]): tagged positions of row j.
TaggedCount(nodes_mask, row) ==
    Cardinality({k \in DOMAIN row : nodes_mask[row[k]]})

RECURSIVE MaskedRow(_, _, _)
\* global_elements[j, mask]: the entries of the row at tagged positions.
MaskedRow(nodes_mask, row, k) ==
    IF k = 0 THEN << >>
    ELSE IF nodes_mask[row[k]]
         THEN Append(MaskedRow(nodes_mask, row, k - 1), row[k])
         ELSE MaskedRow(nodes_mask, row, k - 1)

RECURSIVE InterfaceOfRow(_, _, _, _, _)
\* The inner loop over k in range(n_nodes_per_elem) for one row j, run
\* from position k on: the faces appended and the final mask bit of j.
InterfaceOfRow(nodes_mask, g2o, row, k, in_subdomain) ==
    IF k > Len(row) THEN [faces |-> << >>, bit |-> in_subdomain]
    ELSE LET hit == /\ ~in_subdomain
                    /\ TaggedCount(nodes_mask, row) = mesh.dim
             rest == InterfaceOfRow(nodes_mask, g2o, row, k + 1,
                                    in_subdomain \/ nodes_mask[row[k]])
         IN [faces |->
                 IF hit
                 THEN <<Renumber(g2o, MaskedRow(nodes_mask, row, Len(row)))>>
                      \o rest.faces
                 ELSE rest.faces,
             bit |-> rest.bit]

RECURSIVE ElementsOnInterface(_, _, _, _)
\* The outer loop over rows 1..j.
ElementsOnInterface(nodes_mask, g2o, elts_mask, j) ==
    IF j = 0 THEN << >>
    ELSE ElementsOnInterface(nodes_mask, g2o, elts_mask, j - 1)
         \o InterfaceOfRow(nodes_mask, g2o, global_elements[j], 1,
                           elts_mask[j]).faces

InterfaceKey == <<"interface", mesh.dim - 1>>

ComputeInterface ==
    /\ pc = "interface"
    /\ LET p == partition_id
           nodes_mask == nodes_partition[p]
           g2o == global_to_ovr_subdomain[p]
       IN /\ meshes' =
                 [meshes EXCEPT ![p].physical_group_elements =
                     Put(@, InterfaceKey,
                         ElementsOnInterface(nodes_mask, g2o,
                                             elements_partition,
                                             nb_elements))]
          /\ elements_partition' =
                 [j \in Rows |->
                     InterfaceOfRow(nodes_mask, g2o, global_elements[j], 1,
                                    elements_partition[j]).bit]
    /\ pc' = "intersections"
    /\ UNCHANGED <<mesh, order, overlap, tasks, error, todo, partition_id, rnd,
                   initial_nodes_partition, nodes_partition,
                   node_partition_find_neighbors, neighbors,
                   global_to_ovr_subdomain, partition_to_ovr_subdomain,
                   ovr_subdomain_to_global, intersections,
                   node_multiplicity, partition_of_unity>>

\* --------------------------------------- lines 262-301: intersections
RECURSIVE GrowNeighborNoFill(_, _, _)
\* Variant of the rounds without elements_partition.fill(False): the
\* element pass adds to whatever the mask held before.
GrowNeighborNoFill(part_overlap_neighbors, elts_mask, k) ==
    IF k <= 0
    THEN [nodes |-> part_overlap_neighbors, elements |-> elts_mask]
    ELSE LET elts == ElementPass(elts_mask, part_overlap_neighbors)
         IN GrowNeighborNoFill(NodePass(part_overlap_neighbors, elts), elts,
                               k - 1)

RECURSIVE GrowNeighbor(_, _, _)
\* for _ in range(0, overlap): clear the element mask, element pass over
\* the neighbour's nodes, node pass.
GrowNeighbor(part_overlap_neighbors, elts_mask, k) ==
    IF k <= 0
    THEN [nodes |-> part_overlap_neighbors, elements |-> elts_mask]
    ELSE LET elts == ElementPass([j \in Rows |-> FALSE],
                                 part_overlap_neighbors)
         IN GrowNeighbor(NodePass(part_overlap_neighbors, elts), elts, k - 1)

RECURSIVE IntersectionList(_, _, _)
\* Nodes 0..n-1 of the mask, in increasing order, as local indices.
IntersectionList(g2o, mask, n) ==
    IF n = 0 THEN << >>
    ELSE IF mask[n - 1]
         THEN Append(IntersectionList(g2o, mask, n - 1), g2o[n - 1])
         ELSE IntersectionList(g2o, mask, n - 1)

RECURSIVE IntersectionsOfOriginal(_, _, _, _)
\* Variant that intersects the grown mask of the neighbour with the
\* original mask of p instead of its expanded mask.
IntersectionsOfOriginal(p, nbrs, elts_mask, i) ==
    IF i = 0 THEN [lists |-> << >>, elements |-> elts_mask]
    ELSE LET before == IntersectionsOfOriginal(p, nbrs, elts_mask, i - 1)
             grown == GrowNeighbor(initial_nodes_partition[nbrs[i]],
                                   before.elements, overlap)
             both == [n \in Nodes |->
                         initial_nodes_partition[p][n] /\ grown.nodes[n]]
         IN [lists |->
                 Append(before.lists,
                        IntersectionList(global_to_ovr_subdomain[p], both,
                                         nb_nodes)),
             elements |-> grown.elements]

RECURSIVE IntersectionsOf(_, _, _, _)
\* The loop over neighbors[p][1..i]: the lists appended so far and the
\* element mask the last iteration leaves behind.
IntersectionsOf(p, nbrs, elts_mask, i) ==
    IF i = 0 THEN [lists |-> << >>, elements |-> elts_mask]
    ELSE LET before == IntersectionsOf(p, nbrs, elts_mask, i - 1)
             grown == GrowNeighbor(initial_nodes_partition[nbrs[i]],
                                   before.elements, overlap)
             both == [n \in Nodes |->
                         nodes_partition[p][n] /\ grown.nodes[n]]
         IN [lists |->
                 Append(before.lists,
                        IntersectionList(global_to_ovr_subdomain[p], both,
                                         nb_nodes)),
             elements |-> grown.elements]

ComputeIntersections ==
    /\ pc = "intersections"
    /\ LET p == partition_id
           all == IntersectionsOf(p, neighbors[p], elements_partition,
                                  Len(neighbors[p]))
       IN /\ intersections' = Put(intersections, p, all.lists)
          /\ elements_partition' = all.elements
    /\ pc' = "loop"
    /\ UNCHANGED <<mesh, order, overlap, tasks, error, todo, partition_id, rnd,
                   initial_nodes_partition, nodes_partition,
                   node_partition_find_neighbors, neighbors,
                   global_to_ovr_subdomain, partition_to_ovr_subdomain,
                   ovr_subdomain_to_global, meshes, node_multiplicity,
                   partition_of_unity>>

\* ------------------------------- lines 303-332: partition of unity
\* np.unique(np.concatenate(partition_elements)): the nodes of the rows.
UniqueNodes(partition_elements) ==
    UNION {{partition_elements[i][k] : k \in DOMAIN partition_elements[i]} :
              i \in DOMAIN partition_elements}

\* Variant of the multiplicity without np.unique: one count per row.
NodeMultiplicityPerRow ==
    [n \in Nodes |->
        Cardinality({<<id, i>> \in
                        UNION {{<<q, r>> :
                                   r \in DOMAIN mesh.partitions_elements[q]} :
                                  q \in DOMAIN mesh.partitions_elements} :
                        \E k \in DOMAIN mesh.partitions_elements[id][i] :
                            mesh.partitions_elements[id][i][k] = n})]

NodeMultiplicity ==
    [n \in Nodes |->
        Cardinality({id \in DOMAIN mesh.partitions_elements :
                        n \in UniqueNodes(mesh.partitions_elements[id])})]

\* 1.0 / c as a fraction.
Reciprocal(c) == <<1, c>>

Zero == <<0, 1>>

\* Variant whose array has one slot per node of the original partition
\* instead of one slot per node of the subdomain.
PartitionOfUnityShort(multiplicity, p2o, o2g, size) ==
    [i \in 0 .. Len(p2o) - 1 |->
        IF \E t \in DOMAIN p2o : p2o[t] = i
        THEN Reciprocal(multiplicity[o2g[i]])
        ELSE Zero]

\* An array of zeros, then written at partition_to_ovr_subdomain[:] with
\* the reciprocal multiplicities (a repeated index keeps the last write).
PartitionOfUnity(multiplicity, p2o, o2g, size) ==
    [i \in 0 .. size - 1 |->
        IF \E t \in DOMAIN p2o : p2o[t] = i
        THEN LET t == CHOOSE u \in DOMAIN p2o :
                          /\ p2o[u] = i
                          /\ \A v \in DOMAIN p2o : p2o[v] = i => v <= u
             IN Reciprocal(multiplicity[o2g[p2o[t]]])
        ELSE Zero]

\* Variant of the last phase that concatenates the rows of all partitions
\* at once, which raises ValueError when there is no partition.
ComputePartitionOfUnityConcat ==
    /\ pc = "loop"
    /\ todo = << >>
    /\ IF DOMAIN mesh.partitions_elements = {}
       THEN /\ pc' = "error"
            /\ error' = "ValueError"
            /\ UNCHANGED <<node_multiplicity, partition_of_unity>>
       ELSE /\ pc' = "done"
            /\ UNCHANGED error
            /\ node_multiplicity' = NodeMultiplicity
            /\ partition_of_unity' =
                   [subdomain_id \in DOMAIN meshes |->
                       PartitionOfUnity(
                           NodeMultiplicity,
                           partition_to_ovr_subdomain[subdomain_id],
                           ovr_subdomain_to_global[subdomain_id],
                           Cardinality(DOMAIN meshes[subdomain_id].nodes))]
    /\ UNCHANGED <<mesh, order, overlap, tasks, todo, partition_id, rnd,
                   initial_nodes_partition, nodes_partition,
                   elements_partition, node_partition_find_neighbors,
                   neighbors, global_to_ovr_subdomain,
                   partition_to_ovr_subdomain, ovr_subdomain_to_global,
                   meshes, intersections>>

ComputePartitionOfUnity ==
    /\ pc = "loop"
    /\ todo = << >>
    /\ node_multiplicity' = NodeMultiplicity
    /\ partition_of_unity' =
           [subdomain_id \in DOMAIN meshes |->
               PartitionOfUnity(NodeMultiplicity,
                                partition_to_ovr_subdomain[subdomain_id],
                                ovr_subdomain_to_global[subdomain_id],
                                Cardinality(DOMAIN
                                    meshes[subdomain_id].nodes))]
    /\ pc' = "done"
    /\ UNCHANGED <<mesh, order, overlap, tasks, error, todo, partition_id, rnd,
                   initial_nodes_partition, nodes_partition,
                   elements_partition, node_partition_find_neighbors,
                   neighbors, global_to_ovr_subdomain,
                   partition_to_ovr_subdomain, ovr_subdomain_to_global,
                   meshes, intersections>>

\* ---------------------------------------------------------- specification
\* ------------------- the loop body of lines 122-301 run as one task per id
\* The names bound inside the loop body (partition_id, the round counter,
\* elements_partition, node_partition_find_neighbors) belong to the task
\* that runs the body; the dicts declared at lines 111-120 are shared.  A
\* task is entered for any id not yet taken, may be put aside between two
\* blocks of the body, which saves its names in tasks, and be taken up again.
Locals ==
    [pc |-> pc, rnd |-> rnd, elements_partition |-> elements_partition,
     node_partition_find_neighbors |-> node_partition_find_neighbors]

Without(d, k) == [x \in DOMAIN d \ {k} |-> d[x]]

Remove(seq, i) == [t \in 1 .. Len(seq) - 1 |->
                      IF t < i THEN seq[t] ELSE seq[t + 1]]

\* Variant of the entry of a task in which elements_partition is allocated
\* once, before the loop, instead of at line 126: the task starts from the
\* mask left by the body that ran before it.
StartTaskStaleMask ==
    /\ pc = "loop"
    /\ \E i \in DOMAIN todo :
          /\ partition_id' = todo[i]
          /\ todo' = Remove(todo, i)
          /\ nodes_partition' =
                 Put(nodes_partition, todo[i],
                     initial_nodes_partition[todo[i]])
    /\ elements_partition' =
           IF elements_partition = << >> THEN [j \in Rows |-> FALSE]
           ELSE elements_partition
    /\ rnd' = 0
    /\ pc' = "expand"
    /\ UNCHANGED <<mesh, order, overlap, tasks, error,
                   initial_nodes_partition, node_partition_find_neighbors,
                   neighbors, global_to_ovr_subdomain,
                   partition_to_ovr_subdomain, ovr_subdomain_to_global,
                   meshes, intersections, node_multiplicity,
                   partition_of_unity>>

\* Lines 122-126 for any id still to be processed.
StartTask ==
    /\ pc = "loop"
    /\ \E i \in DOMAIN todo :
          /\ partition_id' = todo[i]
          /\ todo' = Remove(todo, i)
          /\ nodes_partition' =
                 Put(nodes_partition, todo[i],
                     initial_nodes_partition[todo[i]])
    /\ elements_partition' = [j \in Rows |-> FALSE]
    /\ rnd' = 0
    /\ pc' = "expand"
    /\ UNCHANGED <<mesh, order, overlap, tasks, error,
                   initial_nodes_partition, node_partition_find_neighbors,
                   neighbors, global_to_ovr_subdomain,
                   partition_to_ovr_subdomain, ovr_subdomain_to_global,
                   meshes, intersections, node_multiplicity,
                   partition_of_unity>>

\* The running task is put aside between two blocks of the body.
Suspend ==
    /\ pc \in {"expand", "build", "interface", "intersections"}
    /\ tasks' = Put(tasks, partition_id, Locals)
    /\ pc' = "loop"
    /\ partition_id' = NoPartition
    /\ rnd' = 0
    /\ elements_partition' = << >>
    /\ node_partition_find_neighbors' = << >>
    /\ UNCHANGED <<mesh, order, overlap, error, todo,
                   initial_nodes_partition, nodes_partition, neighbors,
                   global_to_ovr_subdomain, partition_to_ovr_subdomain,
                   ovr_subdomain_to_global, meshes, intersections,
                   node_multiplicity, partition_of_unity>>

\* A task put aside is taken up again where it stopped.
Resume ==
    /\ pc = "loop"
    /\ \E p \in DOMAIN tasks :
          /\ partition_id' = p
          /\ pc' = tasks[p].pc
          /\ rnd' = tasks[p].rnd
          /\ elements_partition' = tasks[p].elements_partition
          /\ node_partition_find_neighbors' =
                 tasks[p].node_partition_find_neighbors
          /\ tasks' = Without(tasks, p)
    /\ UNCHANGED <<mesh, order, overlap, error, todo,
                   initial_nodes_partition, nodes_partition, neighbors,
                   global_to_ovr_subdomain, partition_to_ovr_subdomain,
                   ovr_subdomain_to_global, meshes, intersections,
                   node_multiplicity, partition_of_unity>>

\* Lines 303-324 once every task has run to its end.
Join ==
    /\ tasks = << >>
    /\ ComputePartitionOfUnity

Next ==
    \/ Start
    \/ BeginPartition
    \/ ExpandRound
    \/ FindNeighbors
    \/ BuildSubdomain
    \/ ComputeInterface
    \/ ComputeIntersections
    \/ ComputePartitionOfUnity

Spec == Init /\ [][Next]_vars

SpecLong == InitLong /\ [][Next]_vars

NextTasks ==
    \/ Start
    \/ StartTask
    \/ ExpandRound
    \/ FindNeighbors
    \/ BuildSubdomain
    \/ ComputeInterface
    \/ ComputeIntersections
    \/ Suspend
    \/ Resume
    \/ Join

SpecTasks == InitTasks /\ [][NextTasks]_vars

TypeOK ==
    /\ pc \in {"start", "loop", "expand", "build", "interface",
               "intersections", "done", "error"}
    /\ error \in {"none", "KeyError"}
    /\ \A i \in DOMAIN todo : todo[i] \in DOMAIN mesh.partitions_elements

\* ------------------------------------------------- vocabulary of the claims
MaskSet(mask) == {n \in DOMAIN mask : mask[n]}

SeqSet(seq) == {seq[i] : i \in DOMAIN seq}

Keys == DOMAIN mesh.partitions_elements

\* The nodes of the rows of partition p, read off the input mesh.
OriginalNodes(p) ==
    UNION {SeqSet(mesh.partitions_elements[p][i]) :
              i \in DOMAIN mesh.partitions_elements[p]}

Multiplicity(n) == Cardinality({p \in Keys : n \in OriginalNodes(p)})

\* S and every node sharing an element with a node of S.
OneLayer(S) ==
    S \cup {n \in Nodes :
               \E j \in Rows : /\ n \in SeqSet(global_elements[j])
                               /\ SeqSet(global_elements[j]) \cap S # {}}

RECURSIVE Layers(_, _)
Layers(S, k) == IF k <= 0 THEN S ELSE Layers(OneLayer(S), k - 1)

RECURSIVE SumFrac(_, _)
\* Exact sum of the fractions f[p], p \in S.
SumFrac(f, S) ==
    IF S = {} THEN <<0, 1>>
    ELSE LET p == CHOOSE x \in S : TRUE
             r == SumFrac(f, S \ {p})
         IN <<f[p][1] * r[2] + r[1] * f[p][2], f[p][2] * r[2]>>

IsOne(fraction) == fraction[2] # 0 /\ fraction[1] = fraction[2]

ContiguousIds == Keys = 0 .. nb_partitions - 1

\* C1: after add_overlap with overlap >= 0, for every global node touched by
\* some partition's original elements, the weights it receives in the
\* partitions that have it as an original node are each 1/multiplicity and
\* sum to exactly one.
C1_PartitionOfUnitySumsToOne ==
    (pc = "done" /\ overlap >= 0) =>
        \A n \in Nodes :
            LET owners == {p \in Keys : n \in OriginalNodes(p)}
                weight == [p \in owners |->
                              partition_of_unity[p][
                                  global_to_ovr_subdomain[p][n]]]
            IN owners # {} =>
                  /\ \A p \in owners :
                         weight[p] = <<1, Cardinality(owners)>>
                  /\ IsOne(SumFrac(weight, owners))

C1_Witness ==
    /\ pc = "done"
    /\ overlap >= 1
    /\ \E n \in Nodes : Multiplicity(n) >= 2
    /\ \E n \in Nodes : Multiplicity(n) = 1
    /\ \E p \in Keys : \E i \in DOMAIN partition_of_unity[p] :
           partition_of_unity[p][i] = Zero

\* C2: with overlap = 0 the subdomain of every partition p has exactly p's
\* original node set and exactly p's original element set (its elements,
\* mapped back to global node indices, are p's elements).
C2_ZeroOverlapIdentity ==
    (pc = "done" /\ overlap = 0) =>
        \A p \in Keys :
            /\ SeqSet(ovr_subdomain_to_global[p]) = OriginalNodes(p)
            /\ {[k \in DOMAIN row |-> ovr_subdomain_to_global[p][row[k]]] :
                   row \in SeqSet(meshes[p].elements)}
               = SeqSet(mesh.partitions_elements[p])

\* C3: for every subdomain, local_to_global has one entry per node of the
\* expanded mask, is strictly increasing, is inverted by global_to_local, and
\* global_to_local is -1 exactly outside the expanded mask.
C3_IndexMapsInverse ==
    \A p \in DOMAIN ovr_subdomain_to_global :
        LET o2g == ovr_subdomain_to_global[p]
            g2o == global_to_ovr_subdomain[p]
            size == Cardinality(MaskSet(nodes_partition[p]))
        IN /\ DOMAIN o2g = 0 .. size - 1
           /\ \A i \in DOMAIN o2g : o2g[i] \in Nodes /\ g2o[o2g[i]] = i
           /\ \A i, j \in DOMAIN o2g : i < j => o2g[i] < o2g[j]
           /\ \A n \in Nodes : g2o[n] = Unmapped <=> ~nodes_partition[p][n]

C3_Witness ==
    /\ pc = "done"
    /\ overlap >= 1
    /\ \E p \in Keys :
          /\ MaskSet(nodes_partition[p]) # OriginalNodes(p)
          /\ \E n, m \in Nodes :
                /\ n < m
                /\ global_to_ovr_subdomain[p][n] = Unmapped
                /\ global_to_ovr_subdomain[p][m] # Unmapped
                /\ global_to_ovr_subdomain[p][m] # m

\* C4: intersections[p] has one list per neighbour, at the neighbour's
\* position, holding the local indices of the nodes p's subdomain shares with
\* that neighbour's subdomain, and no list of a reported neighbour is empty.
C4_IntersectionsAligned ==
    \A p \in DOMAIN intersections :
        /\ Len(intersections[p]) = Len(neighbors[p])
        /\ \A i \in DOMAIN neighbors[p] :
               /\ SeqSet(intersections[p][i])
                  = {global_to_ovr_subdomain[p][n] :
                        n \in MaskSet(nodes_partition[p])
                              \cap Layers(OriginalNodes(neighbors[p][i]),
                                          overlap)}
               /\ intersections[p][i] # << >>

C4_Witness ==
    /\ pc = "done"
    /\ overlap >= 1
    /\ \E p \in Keys :
          /\ Len(neighbors[p]) = 2
          /\ intersections[p][1] # intersections[p][2]

\* C5: every expansion round only adds nodes to a partition's mask, so the
\* node set built with a larger overlap contains the one built with a
\* smaller overlap.
C5_MonotonicGrowth ==
    [][\A p \in DOMAIN nodes_partition :
           /\ p \in DOMAIN nodes_partition'
           /\ MaskSet(nodes_partition[p]) \subseteq
                  MaskSet(nodes_partition'[p])]_vars

C5_Witness ==
    /\ pc = "expand"
    /\ rnd = 2
    /\ \E n \in Nodes :
          /\ nodes_partition[partition_id][n]
          /\ n \notin OneLayer(OriginalNodes(partition_id))

\* C6: on a mesh with zero partitions add_overlap raises nothing and returns
\* empty meshes, neighbors, intersections, partition_of_unity and
\* local_to_global maps, for any overlap >= 0.
C6_ZeroPartitions ==
    (Keys = {} /\ overlap >= 0) =>
        /\ error = "none"
        /\ pc \in {"start", "loop", "done"}
        /\ pc = "done" =>
              /\ meshes = << >>
              /\ neighbors = << >>
              /\ intersections = << >>
              /\ partition_of_unity = << >>
              /\ ovr_subdomain_to_global = << >>

C6_Witness ==
    /\ Keys = {}
    /\ overlap >= 1
    /\ nb_elements >= 2
    /\ pc = "done"

\* C7: a negative overlap is rejected: the call raises before any mask
\* expansion and never returns subdomain outputs as overlap = 0 would.
C7_NegativeOverlapRejected ==
    (overlap < 0 /\ mesh.dim \in 1 .. 3) =>
        ~(pc = "done" /\ meshes # << >>)

\* C8: partition ids other than 0..P-1 are rejected before the expansion of
\* any partition begins: whenever the call has stopped on such ids, no
\* partition's mask had been created.
C8_IdsRejectedAtAcceptance ==
    (~ContiguousIds /\ overlap >= 0 /\ mesh.dim \in 1 .. 3
     /\ pc \in {"error", "done"}) =>
        (pc = "error" /\ nodes_partition = << >>)

\* C9: a mesh whose dim is outside 1..3 makes add_overlap fail; it never
\* returns subdomains, with their interface group, for such a mesh.
C9_UnsupportedDimension ==
    (mesh.dim \notin 1 .. 3 /\ overlap >= 0) =>
        ~(pc = "done" /\ meshes # << >>)

\* A 2D strip cut into two runs of consecutive triangles: rows 1..c in one
\* partition and rows c+1..M in the other, ids 0 and 1.
TwoStripSplit ==
    /\ mesh.dim = 2
    /\ Keys = {0, 1}
    /\ \E c \in 1 .. nb_elements - 1 : \E left \in {0, 1} :
          /\ mesh.partitions_elements[left]
             = SubSeq(global_elements, 1, c)
          /\ mesh.partitions_elements[1 - left]
             = SubSeq(global_elements, c + 1, nb_elements)

\* C10: for a 2D mesh split into two strips 0 and 1 sharing the nodes of the
\* cut line, overlap = 1 gives neighbors[0] = [1] and neighbors[1] = [0].
C10_TwoStripNeighbors ==
    (pc = "done" /\ overlap = 1 /\ TwoStripSplit) =>
        /\ neighbors[0] = <<1>>
        /\ neighbors[1] = <<0>>

C10_Witness ==
    /\ pc = "done"
    /\ overlap = 1
    /\ TwoStripSplit
    /\ nb_elements = 4
    /\ Len(mesh.partitions_elements[0]) = 2

\* C11: when add_overlap returns, the five maps (meshes, neighbors,
\* intersections, partition_of_unity, local_to_global) have the same key
\* set, the partition ids of mesh.partitions_elements, and for each id the
\* weights and the local-to-global map have one entry per subdomain node.
C11_SameKeysAndLengths ==
    pc = "done" =>
        /\ DOMAIN meshes = Keys
        /\ DOMAIN neighbors = Keys
        /\ DOMAIN intersections = Keys
        /\ DOMAIN partition_of_unity = Keys
        /\ DOMAIN ovr_subdomain_to_global = Keys
        /\ \A p \in Keys :
              /\ Cardinality(DOMAIN partition_of_unity[p])
                    = Cardinality(DOMAIN meshes[p].nodes)
              /\ Cardinality(DOMAIN ovr_subdomain_to_global[p])
                    = Cardinality(DOMAIN meshes[p].nodes)

C11_Witness ==
    /\ pc = "done"
    /\ overlap >= 1
    /\ Cardinality(Keys) >= 2
    /\ \E p, q \in Keys :
          /\ Cardinality(DOMAIN ovr_subdomain_to_global[p]) # Cardinality(DOMAIN ovr_subdomain_to_global[q])
          /\ Cardinality(DOMAIN ovr_subdomain_to_global[p]) > Cardinality(OriginalNodes(p))
          /\ Cardinality(DOMAIN partition_of_unity[p])
                = Cardinality(DOMAIN ovr_subdomain_to_global[p])

\* C12: the weight of local node i of subdomain p is the reciprocal of the
\* multiplicity of its global node when that node belongs to the original
\* partition p, and zero otherwise; an overlap-only node weighs zero and an
\* original node weighs more than zero and at most one.
C12_WeightRule ==
    pc = "done" =>
        \A p \in Keys :
            \A i \in DOMAIN partition_of_unity[p] :
                LET n == ovr_subdomain_to_global[p][i]
                    w == partition_of_unity[p][i]
                IN  IF n \in OriginalNodes(p)
                    THEN /\ w = <<1, Multiplicity(n)>>
                         /\ w[1] > 0
                         /\ w[1] <= w[2]
                    ELSE w = <<0, 1>>

C12_Witness ==
    /\ pc = "done"
    /\ \E p \in Keys :
          /\ \E i \in DOMAIN partition_of_unity[p] :
                /\ ovr_subdomain_to_global[p][i] \notin OriginalNodes(p)
                /\ partition_of_unity[p][i] = <<0, 1>>
          /\ \E i \in DOMAIN partition_of_unity[p] :
                /\ ovr_subdomain_to_global[p][i] \in OriginalNodes(p)
                /\ partition_of_unity[p][i][2] >= 2
          /\ \E i \in DOMAIN partition_of_unity[p] :
                partition_of_unity[p][i] = <<1, 1>>

\* C13: q is listed among the neighbours of p exactly when q differs from p
\* and the mask of p expanded by 2k layers from its original nodes holds a
\* node of the original, unexpanded mask of q; the list never holds p and
\* never holds an id twice.
C13_NeighborRule ==
    (pc \in {"build", "done"} /\ overlap >= 0) =>
        \A p \in DOMAIN neighbors :
            /\ \A q \in Keys :
                  q \in SeqSet(neighbors[p])
                    <=> /\ q # p
                        /\ Layers(OriginalNodes(p), 2 * overlap)
                             \cap OriginalNodes(q) # {}
            /\ SeqSet(neighbors[p]) \subseteq Keys \ {p}
            /\ \A i, j \in DOMAIN neighbors[p] :
                  i # j => neighbors[p][i] # neighbors[p][j]

C13_Witness ==
    /\ pc = "done"
    /\ overlap >= 1
    /\ \E p \in Keys :
          \E q \in SeqSet(neighbors[p]) :
              Layers(OriginalNodes(p), 2 * overlap - 1)
                \cap OriginalNodes(q) = {}

\* C14: two distinct subdomains whose k-layer expansions share a node are
\* neighbours: detection at depth 2k misses no overlapping subdomain.
C14_OverlappingAreNeighbors ==
    (pc \in {"build", "done"} /\ overlap >= 0) =>
        \A p \in DOMAIN neighbors :
            \A q \in Keys \ {p} :
                Layers(OriginalNodes(q), overlap)
                  \cap Layers(OriginalNodes(p), overlap) # {}
                    => q \in SeqSet(neighbors[p])

C14_Witness ==
    /\ pc = "done"
    /\ overlap >= 1
    /\ \E p \in Keys :
          \E q \in SeqSet(neighbors[p]) :
              /\ Layers(OriginalNodes(p), overlap) \cap OriginalNodes(q) = {}
              /\ Layers(OriginalNodes(q), overlap)
                   \cap Layers(OriginalNodes(p), overlap) # {}

\* The c-th smallest member of a set of integers.
NthOf(S, c) == CHOOSE n \in S : Cardinality({m \in S : m <= n}) = c

\* The local index of global node n in a subdomain whose node set is S.
LocalIndex(S, n) == Cardinality({m \in S : m < n})

\* C15: intersections[p][i] is exactly the list, in ascending order, of p's
\* local indices of the global nodes lying both in p's k-layer mask and in
\* the k-layer expansion of the original mask of q = neighbors[p][i]; it is
\* fixed by the mesh and the two partitions alone, whatever the element mask
\* held after p's own expansion or after the previous neighbour.
C15_IntersectionRule ==
    pc \in {"loop", "done"} =>
        \A p \in DOMAIN intersections :
            \A i \in DOMAIN neighbors[p] :
                LET mine == Layers(OriginalNodes(p), overlap)
                    both == mine \cap Layers(OriginalNodes(neighbors[p][i]),
                                             overlap)
                IN  intersections[p][i]
                      = [c \in 1 .. Cardinality(both) |->
                            LocalIndex(mine, NthOf(both, c))]

C15_Witness ==
    /\ pc = "done"
    /\ overlap >= 1
    /\ \E p \in Keys :
          /\ Len(neighbors[p]) = 2
          /\ \E t \in 1 .. nb_elements : elements_partition[t]
          /\ Len(intersections[p][2]) >= 2
          /\ Len(intersections[p][2])
                < Cardinality(MaskSet(nodes_partition[p]))
          /\ intersections[p][2][1] > 0

\* The rows outside the element mask with exactly dim of their dim + 1
\* nodes in the node set S.
QualifyingRows(S, elts_mask) ==
    {j \in Rows : /\ ~elts_mask[j]
                  /\ Cardinality(SeqSet(global_elements[j]) \cap S)
                       = mesh.dim}

\* C16: the interface group written for subdomain p holds exactly one entry
\* for each global element that is outside p's element mask and has exactly
\* dim of its dim + 1 nodes in p's node mask, the entry being those dim nodes
\* as local indices; no such element gives two entries and no other element
\* gives any.
C16_OneFacePerQualifyingElement ==
    [][(pc = "interface" /\ overlap >= 1 /\ mesh.dim \in 1 .. 3) =>
          LET p == partition_id
              S == MaskSet(nodes_partition[p])
              rows == QualifyingRows(S, elements_partition)
              faces == meshes'[p].physical_group_elements[InterfaceKey]
          IN  /\ Len(faces) = Cardinality(rows)
              /\ \A c \in DOMAIN faces :
                    /\ c <= Cardinality(rows)
                    /\ Len(faces[c]) = mesh.dim
                    /\ SeqSet(faces[c])
                         = {LocalIndex(S, n) :
                               n \in SeqSet(global_elements[NthOf(rows, c)])
                                      \cap S}]_vars

\* Every face of the interface group written for p is shared by an element
\* of the subdomain and an element left out of it.
FacesOnTruncationBoundary ==
    LET p == partition_id
        faces == meshes'[p].physical_group_elements[InterfaceKey]
    IN  \A c \in DOMAIN faces :
            LET F == {ovr_subdomain_to_global[p][faces[c][t]] :
                         t \in DOMAIN faces[c]}
            IN  /\ \E j \in Rows : /\ elements_partition[j]
                                   /\ F \subseteq SeqSet(global_elements[j])
                /\ \E j \in Rows : /\ ~elements_partition[j]
                                   /\ F \subseteq SeqSet(global_elements[j])

\* C17: every entry of p's interface group lies on the boundary created by
\* truncating the expansion: an element included in subdomain p holds all
\* dim nodes of the entry, and so does an element excluded from it.
C17_InterfaceOnTruncationBoundary ==
    [][(pc = "interface" /\ overlap >= 1 /\ mesh.dim \in 1 .. 3)
          => FacesOnTruncationBoundary]_vars

\* The positions of the rows of a physical group lying wholly in node set S.
KeptRows(group, S) == {j \in DOMAIN group : SeqSet(group[j]) \subseteq S}

\* C18: for every subdomain p and physical group g of the global mesh, the
\* subdomain's group g holds exactly the rows of g all of whose nodes are in
\* p's expanded node mask, in their original order and in local indices; a
\* row with a node outside the mask is dropped, and a group left with no row
\* is not a key of the subdomain's groups.
C18_GroupsRestricted ==
    pc \in {"interface", "done"} =>
        \A p \in DOMAIN meshes :
            LET S == MaskSet(nodes_partition[p])
                groups == mesh.physical_group_elements
                mine == meshes[p].physical_group_elements
            IN  /\ DOMAIN mine \subseteq DOMAIN groups \cup {InterfaceKey}
                /\ \A g \in DOMAIN groups :
                      LET kept == KeptRows(groups[g], S)
                      IN  IF kept = {} THEN g \notin DOMAIN mine
                          ELSE /\ g \in DOMAIN mine
                               /\ mine[g]
                                    = [c \in 1 .. Cardinality(kept) |->
                                        [k \in DOMAIN groups[g][NthOf(kept, c)]
                                           |-> LocalIndex(S,
                                                 groups[g][NthOf(kept, c)][k])]]

C18_Witness ==
    /\ pc = "done"
    /\ overlap >= 0
    /\ \E p \in Keys :
          LET groups == mesh.physical_group_elements
              mine == meshes[p].physical_group_elements
          IN  /\ \E g \in DOMAIN groups : g \notin DOMAIN mine
              /\ \E g \in DOMAIN groups :
                    /\ g \in DOMAIN mine
                    /\ Len(mine[g]) < Len(groups[g])
                    /\ Len(mine[g]) >= 2
                    /\ ~nodes_partition[p][0]

\* C19: no step of add_overlap changes the global mesh (nodes, elements,
\* physical groups, partitions), and once the original node masks are
\* built no step changes them: the mask of every partition q stays the set
\* of nodes of q's own elements through the expansion, the neighbour
\* detection and the intersection computation of every partition.
C19_InputsUntouched ==
    [][/\ mesh' = mesh
       /\ pc # "start" =>
             /\ initial_nodes_partition' = initial_nodes_partition
             /\ DOMAIN initial_nodes_partition = Keys
             /\ \A q \in Keys :
                   MaskSet(initial_nodes_partition[q]) = OriginalNodes(q)]_vars

C19_Witness ==
    /\ pc = "done"
    /\ overlap >= 1
    /\ \E p, q \in Keys :
          /\ q \in SeqSet(neighbors[p])
          /\ MaskSet(nodes_partition[q]) # OriginalNodes(q)
          /\ MaskSet(node_partition_find_neighbors) # OriginalNodes(q)
          /\ MaskSet(initial_nodes_partition[q]) = OriginalNodes(q)
          /\ \E i \in DOMAIN intersections[p] :
                /\ neighbors[p][i] = q
                /\ Len(intersections[p][i])
                     > Cardinality(OriginalNodes(p) \cap OriginalNodes(q))

\* What the loop body computes for partition p when it runs first, alone
\* and without a pause: lines 122-260 from a fresh element mask.
Alone(p) ==
    LET fresh == [j \in Rows |-> FALSE]
        grown == ExpandMore(initial_nodes_partition[p], fresh, overlap)
        far == ExpandMore(grown.nodes, grown.elements, overlap).nodes
        g2o == GlobalToOvr(grown.nodes)
        o2g == OvrToGlobal(g2o, grown.nodes)
    IN  [nodes_partition |-> grown.nodes,
         neighbors |-> ListOfSet(NeighborsSet(far, p)),
         global_to_ovr_subdomain |-> g2o,
         ovr_subdomain_to_global |-> o2g,
         mesh |->
             [dim |-> mesh.dim,
              nodes |-> [i \in DOMAIN o2g |-> mesh.nodes[o2g[i]]],
              elements |-> ElementsInSubdomain(g2o, grown.elements),
              physical_group_elements |->
                  Put(RestrictGroups(g2o), InterfaceKey,
                      ElementsOnInterface(grown.nodes, g2o, grown.elements,
                                          nb_elements)),
              partitions_elements |-> << >>]]

\* C20: the subdomain mesh, the neighbour list, the intersections and the
\* local-to-global map of a partition are the same whatever the order in
\* which the partitions are processed and however their constructions are
\* interleaved: they are what the body computes for that partition alone,
\* so nothing written while processing one partition (node mask, element
\* mask, neighbour set) is read while processing another.
C20_PartitionsIndependent ==
    \A p \in DOMAIN intersections :
        LET alone == Alone(p)
        IN  /\ nodes_partition[p] = alone.nodes_partition
            /\ global_to_ovr_subdomain[p] = alone.global_to_ovr_subdomain
            /\ ovr_subdomain_to_global[p] = alone.ovr_subdomain_to_global
            /\ neighbors[p] = alone.neighbors
            /\ meshes[p] = alone.mesh
            /\ intersections[p]
                 = IntersectionsOf(p, alone.neighbors,
                                   [j \in Rows |-> FALSE],
                                   Len(alone.neighbors)).lists

\* A partition was completed while a partition with a smaller id, entered
\* before it, was put aside in the middle of its body, and a third one is
\* running.
C20_Witness ==
    /\ overlap >= 1
    /\ pc \in {"build", "interface", "intersections"}
    /\ \E p \in DOMAIN intersections :
          /\ Len(neighbors[p]) >= 1
          /\ \E q \in DOMAIN tasks :
                /\ q < p
                /\ tasks[q].pc \in {"interface", "intersections"}
                /\ \E t \in Rows : tasks[q].elements_partition[t]
          /\ partition_id \notin DOMAIN tasks \cup {p}

\* The rows of partition p do not form one run of consecutive rows.
Scattered(p) ==
    \E i, j, t \in Rows :
        /\ i < t /\ t < j
        /\ \E r \in DOMAIN mesh.partitions_elements[p] :
              mesh.partitions_elements[p][r] = global_elements[i]
        /\ \E r \in DOMAIN mesh.partitions_elements[p] :
              mesh.partitions_elements[p][r] = global_elements[j]
        /\ \A r \in DOMAIN mesh.partitions_elements[p] :
              mesh.partitions_elements[p][r] # global_elements[t]

\* C21: the neighbour relation returned by add_overlap is symmetric, for
\* every mesh, every partition assignment (runs of rows or scattered rows)
\* and every overlap k >= 0: q is a neighbour of p exactly when p is a
\* neighbour of q.
C21_NeighborsSymmetric ==
    (pc = "done" /\ overlap >= 0) =>
        \A p, q \in Keys :
            q \in SeqSet(neighbors[p]) <=> p \in SeqSet(neighbors[q])

C21_Witness ==
    /\ pc = "done"
    /\ overlap >= 1
    /\ \E p, q \in Keys :
          /\ Scattered(p)
          /\ q \in SeqSet(neighbors[p])
          /\ p \in SeqSet(neighbors[q])
          /\ Cardinality(Keys) >= 3

\* intersections[p][i] mapped through local_to_global[p]: a list of global
\* node indices.
HaloGlobal(p, i) ==
    [c \in DOMAIN intersections[p][i] |->
        ovr_subdomain_to_global[p][intersections[p][i][c]]]

\* C22: for partitions p and q that list each other as neighbours, the
\* intersection list p keeps for q and the one q keeps for p, each mapped
\* to global node indices through its own local-to-global map, are the same
\* list, in ascending global order: equal length, matched position by
\* position.
C22_HaloListsAgree ==
    pc = "done" =>
        \A p, q \in Keys :
            \A i \in DOMAIN neighbors[p] :
                \A j \in DOMAIN neighbors[q] :
                    (neighbors[p][i] = q /\ neighbors[q][j] = p) =>
                        /\ HaloGlobal(p, i) = HaloGlobal(q, j)
                        /\ \A c, d \in DOMAIN HaloGlobal(p, i) :
                              c < d => HaloGlobal(p, i)[c] < HaloGlobal(p, i)[d]

C22_Witness ==
    /\ pc = "done"
    /\ overlap >= 1
    /\ \E p, q \in Keys :
          \E i \in DOMAIN neighbors[p] :
              \E j \in DOMAIN neighbors[q] :
                  /\ neighbors[p][i] = q
                  /\ neighbors[q][j] = p
                  /\ i # j
                  /\ Len(intersections[p][i]) >= 2
                  /\ intersections[p][i] # intersections[q][j]
                  /\ HaloGlobal(p, i) = HaloGlobal(q, j)

\* Every entry of every row of an array of rows is a local node index of p.
RowsInRange(rows, p) ==
    \A c \in DOMAIN rows :
        \A k \in DOMAIN rows[c] : rows[c][k] \in DOMAIN meshes[p].nodes

\* C23: for every partition p and overlap k >= 1, every node index stored
\* in the subdomain's elements, in its restricted physical groups and in
\* its interface group is a local index between 0 and the number of local
\* nodes (never the unmapped marker), and every local node of the subdomain
\* belongs to at least one of the subdomain's elements.
C23_ClosedAndDense ==
    (pc = "done" /\ overlap >= 1) =>
        \A p \in Keys :
            /\ DOMAIN meshes[p].nodes
                 = 0 .. Cardinality(DOMAIN meshes[p].nodes) - 1
            /\ RowsInRange(meshes[p].elements, p)
            /\ \A g \in DOMAIN meshes[p].physical_group_elements :
                  RowsInRange(meshes[p].physical_group_elements[g], p)
            /\ InterfaceKey \in DOMAIN meshes[p].physical_group_elements
            /\ \A i \in DOMAIN meshes[p].nodes :
                  \E c \in DOMAIN meshes[p].elements :
                      i \in SeqSet(meshes[p].elements[c])

C23_Witness ==
    /\ pc = "done"
    /\ overlap >= 1
    /\ \E p \in Keys :
          LET groups == meshes[p].physical_group_elements
          IN  /\ Len(meshes[p].elements) >= 2
              /\ Len(meshes[p].elements) < nb_elements
              /\ Len(groups[InterfaceKey]) >= 1
              /\ Cardinality(DOMAIN groups) >= 3
              /\ ~nodes_partition[p][0]

====
